---- MODULE Spec2Model ----
(***************************************************************************)
(* Prize wheel (ct-zh/roll): the WheelAnimationController state machine,   *)
(* the host's frame-callback queue and clock, and the React flow            *)
(* Lever -> SlotMachine -> App -> Wheel that drives it.                     *)
(*                                                                         *)
(* Time is in clock units; one accepted spin lasts `duration` units.       *)
(* Angles handed to spin() are whole degrees; the stored rotation is held  *)
(* in units of 1/AngleScale degree so that every value of the cubic easing *)
(* curve is exact.                                                         *)
(***************************************************************************)
EXTENDS Integers, Sequences, FiniteSets

(* ------------------------------ bounds -------------------------------- *)
MaxTime == 3    \* the clock stops here
MaxCalls == 2   \* spin() calls per behaviour
MaxAppTime == 10  \* the clock stops here when the application runs
MaxAdds == 102    \* HistoryStorage.addRecord calls per behaviour
MaxSaves == 2     \* items saved in the configuration dialog per behaviour

(* ------------------------- input domains ------------------------------ *)
Durations == {1, 2}   \* spin()'s duration argument, in clock units
Deltas == {-90, 450}  \* spin()'s targetAngle argument, in degrees
Steps == {1, 2}       \* clock units between two frames

AngleScale == 60 * 60 * 60

NoHandle == 0
NoTransform == <<>>

VARIABLES
  world,   \* the controller's fields and the host objects its methods touch
  now,     \* host: Date.now()
  last,    \* the operation that produced this state, and the world before it
  epoch,   \* index of the first spin() call made after the latest reset()
  app      \* the React components' state, their timers and the history store

\* The fields of `world`.
element == world.element                  \* WheelAnimationController.element is non-null
isSpinning == world.isSpinning            \* WheelAnimationController.isSpinning
currentRotation == world.currentRotation  \* .currentRotation, in 1/AngleScale degree
animationId == world.animationId          \* .animationId, NoHandle = null
transform == world.transform              \* element.style.transform: <<angle>> once written
rafQueue == world.rafQueue                \* host: pending frame callbacks, handle -> spin call
nextHandle == world.nextHandle            \* host: next handle requestAnimationFrame returns
spins == world.spins                      \* one record per spin() call: closure and promise

MinOf(S) == CHOOSE x \in S : \A y \in S : x <= y

(* ------------------------------ host ---------------------------------- *)
\* requestAnimationFrame(animate) for the closure of spin call p; the handle
\* returned is w.nextHandle.
requestAnimationFrame(w, p) ==
  [w EXCEPT !.rafQueue = [h \in DOMAIN @ \cup {w.nextHandle} |->
                            IF h = w.nextHandle THEN p ELSE @[h]],
            !.nextHandle = @ + 1]

cancelAnimationFrame(w, h) ==
  [w EXCEPT !.rafQueue = [k \in DOMAIN @ \ {h} |-> @[k]]]

(* ---------------------- WheelAnimationController ---------------------- *)
\* easeOutCubic(k / d) = 1 - (1 - k/d)^3, returned as a numerator over d^3.
easeOutCubic(k, d) == d * d * d - (d - k) * (d - k) * (d - k)

\* The promise's resolve(): the first call settles it, each call is counted.
resolve(w, p) ==
  [w EXCEPT !.spins[p].outcome = IF @ = "pending" THEN "resolved" ELSE @,
            !.spins[p].resolves = @ + 1]

\* progress = Math.min(elapsed / duration, 1), returned as a numerator over
\* c.duration.
progress(c, t) ==
  LET elapsed == t - c.startTime
  IN IF elapsed < c.duration THEN elapsed ELSE c.duration

\* Mutant: the start angle is dropped, the rotation is absolute.
rotationAbsolute(c, k) ==
  c.totalRotation * easeOutCubic(k, c.duration)
    * (AngleScale \div (c.duration * c.duration * c.duration))

\* startRotation + totalRotation * easing(progress) at progress k / c.duration.
rotationAt(c, k) ==
  c.startRotation
  + c.totalRotation * easeOutCubic(k, c.duration)
    * (AngleScale \div (c.duration * c.duration * c.duration))

\* Mutant: the tick always asks for another frame and never finishes.
animateNeverDone(w, p, t) ==
  LET c == w.spins[p]
      rotation == rotationAt(c, progress(c, t))
      w1 == [w EXCEPT !.currentRotation = rotation,
                      !.transform = IF w.element THEN <<rotation>> ELSE @,
                      !.spins[p].ticks = @ + 1]
  IN [w1 EXCEPT !.rafQueue = [h \in DOMAIN @ \cup {w1.nextHandle} |->
                                IF h = w1.nextHandle THEN p ELSE @[h]],
                !.nextHandle = @ + 1,
                !.animationId = w1.nextHandle]

\* Mutant: resolve() is called on every tick, finished or not.
animateResolveEachTick(w, p, t) ==
  LET c == w.spins[p]
      k == progress(c, t)
      rotation == rotationAt(c, k)
      w1 == [w EXCEPT !.currentRotation = rotation,
                      !.transform = IF w.element THEN <<rotation>> ELSE @,
                      !.spins[p].ticks = @ + 1,
                      !.spins[p].outcome = "resolved",
                      !.spins[p].resolves = @ + 1]
  IN IF k < c.duration
       THEN [w1 EXCEPT !.rafQueue = [h \in DOMAIN @ \cup {w1.nextHandle} |->
                                       IF h = w1.nextHandle THEN p ELSE @[h]],
                       !.nextHandle = @ + 1,
                       !.animationId = w1.nextHandle]
       ELSE [w1 EXCEPT !.isSpinning = FALSE, !.animationId = NoHandle]

\* Mutant: the last tick leaves the handle of the frame it ran in.
animateKeepsHandle(w, p, t) ==
  LET c == w.spins[p]
      k == progress(c, t)
      rotation == rotationAt(c, k)
      w1 == [w EXCEPT !.currentRotation = rotation,
                      !.transform = IF w.element THEN <<rotation>> ELSE @,
                      !.spins[p].ticks = @ + 1]
  IN IF k < c.duration
       THEN [w1 EXCEPT !.rafQueue = [h \in DOMAIN @ \cup {w1.nextHandle} |->
                                       IF h = w1.nextHandle THEN p ELSE @[h]],
                       !.nextHandle = @ + 1,
                       !.animationId = w1.nextHandle]
       ELSE [w1 EXCEPT !.isSpinning = FALSE,
                       !.spins[p].outcome = IF @ = "pending" THEN "resolved" ELSE @,
                       !.spins[p].resolves = @ + 1]

\* One run of the animate closure of spin call p at clock value t.
animate(w, p, t) ==
  LET c == w.spins[p]
      k == progress(c, t)
      rotation == rotationAt(c, k)
      w1 == [w EXCEPT !.currentRotation = rotation,
                      !.transform = IF w.element THEN <<rotation>> ELSE @,
                      !.spins[p].ticks = @ + 1]
  IN IF k < c.duration
       THEN [requestAnimationFrame(w1, p) EXCEPT !.animationId = w1.nextHandle]
       ELSE resolve([w1 EXCEPT !.isSpinning = FALSE, !.animationId = NoHandle], p)

\* The record of one spin() call: the promise it returned and, when the call
\* was accepted, the variables its animate closure captured.
Call(outcome, t, rot, targetAngle, duration) ==
  [ outcome |-> outcome, startTime |-> t, startRotation |-> rot,
    totalRotation |-> targetAngle, duration |-> duration,
    resolves |-> 0, ticks |-> 0 ]

\* The part of spin() past its two guards: enter Spinning, capture the
\* closure, request the first frame.
startSpin(w, targetAngle, duration, t) ==
  LET p == Len(w.spins) + 1
      w1 == [w EXCEPT !.isSpinning = TRUE,
                      !.spins = Append(@, Call("pending", t, w.currentRotation,
                                               targetAngle, duration))]
  IN [requestAnimationFrame(w1, p) EXCEPT !.animationId = w1.nextHandle]

\* Mutant: the isSpinning guard is missing.
spinNoGuard(w, targetAngle, duration, t) ==
  IF ~w.element
    THEN [w EXCEPT !.spins = Append(@, Call("NoTarget", 0, 0, 0, 0))]
    ELSE startSpin(w, targetAngle, duration, t)

\* Mutant: the element guard is missing.
spinNoElementCheck(w, targetAngle, duration, t) ==
  IF w.isSpinning
    THEN [w EXCEPT !.spins = Append(@, Call("AlreadySpinning", 0, 0, 0, 0))]
    ELSE startSpin(w, targetAngle, duration, t)

\* spin(targetAngle, duration) called at clock value t.
spin(w, targetAngle, duration, t) ==
  IF ~w.element
    THEN [w EXCEPT !.spins = Append(@, Call("NoTarget", 0, 0, 0, 0))]
  ELSE IF w.isSpinning
    THEN [w EXCEPT !.spins = Append(@, Call("AlreadySpinning", 0, 0, 0, 0))]
  ELSE startSpin(w, targetAngle, duration, t)

\* Mutant: the pending frame callback is not cancelled.
stopNoCancel(w) == [w EXCEPT !.animationId = NoHandle, !.isSpinning = FALSE]

\* Mutant: stop() only clears the flag; handle and callback stay.
stopFlagOnly(w) == [w EXCEPT !.isSpinning = FALSE]

\* Mutant: stop() also rewinds the wheel.
stopRewinds(w) ==
  LET w1 == IF w.animationId # NoHandle
              THEN [cancelAnimationFrame(w, w.animationId) EXCEPT !.animationId = NoHandle]
              ELSE w
  IN [w1 EXCEPT !.isSpinning = FALSE, !.currentRotation = 0]

stop(w) ==
  LET w1 == IF w.animationId # NoHandle
              THEN [cancelAnimationFrame(w, w.animationId) EXCEPT !.animationId = NoHandle]
              ELSE w
  IN [w1 EXCEPT !.isSpinning = FALSE]

\* Mutant: reset() forgets to stop the animation.
resetNoStop(w) ==
  [w EXCEPT !.currentRotation = 0,
            !.transform = IF w.element THEN <<0>> ELSE @]

reset(w) ==
  LET w1 == stop(w)
  IN [w1 EXCEPT !.currentRotation = 0,
                !.transform = IF w1.element THEN <<0>> ELSE @]

getState(w) == [isSpinning |-> w.isSpinning, currentRotation |-> w.currentRotation]

\* The host runs the callbacks that were queued when the frame began, in the
\* order they were requested; a callback requested during the frame waits
\* for the next one.
RECURSIVE RunCallbacks(_, _, _)
RunCallbacks(w, hs, t) ==
  IF hs = {} THEN w
  ELSE LET h == MinOf(hs)
       IN IF h \in DOMAIN w.rafQueue
            THEN RunCallbacks(animate(cancelAnimationFrame(w, h), w.rafQueue[h], t),
                              hs \ {h}, t)
            ELSE RunCallbacks(w, hs \ {h}, t)


(* ======================= the application ============================== *)
(* Clock unit of the application: 500 ms.                                  *)

\* Math.random() is r / RandDen for r in Rand.
RandDen == 2 * 6
Rand == 0..(RandDen - 1)

HistoryCap == 100
LeverDelay == 1
AvoidRecent == 2
BaseRotations == 5

Themes == {"classic", "modern", "dark", "rainbow"}

\* The built-in items; "t1" .. "t6" stand for their six different texts.
DEFAULT_ITEMS ==
  << [id |-> "default_1", text |-> "t1", weight |-> 1, isDefault |-> TRUE],
     [id |-> "default_2", text |-> "t2", weight |-> 1, isDefault |-> TRUE],
     [id |-> "default_3", text |-> "t3", weight |-> 1, isDefault |-> TRUE],
     [id |-> "default_4", text |-> "t4", weight |-> 1, isDefault |-> TRUE],
     [id |-> "default_5", text |-> "t5", weight |-> 1, isDefault |-> TRUE],
     [id |-> "default_6", text |-> "t6", weight |-> 1, isDefault |-> TRUE] >>

(* --------------------------- LotteryEngine ---------------------------- *)
RECURSIVE SumWeights(_, _)
\* items.slice(0, n).reduce((sum, item) => sum + item.weight, 0)
SumWeights(items, n) ==
  IF n = 0 THEN 0 ELSE SumWeights(items, n - 1) + items[n].weight

\* Mutant: the loop returns only once the remainder is below zero.
RECURSIVE weightedLoopStrict(_, _, _)
weightedLoopStrict(items, i, random) ==
  IF i > Len(items) THEN 0
  ELSE LET left == random - RandDen * items[i].weight
       IN IF left < 0 THEN i ELSE weightedLoopStrict(items, i + 1, left)

\* The for loop of weightedRandomSelect from entry i on; `random` is the
\* remainder as a numerator over RandDen.  The index at which the loop
\* returns, 0 when the loop runs off the end.
RECURSIVE weightedLoop(_, _, _)
weightedLoop(items, i, random) ==
  IF i > Len(items) THEN 0
  ELSE LET left == random - RandDen * items[i].weight
       IN IF left <= 0 THEN i ELSE weightedLoop(items, i + 1, left)

\* weightedRandomSelect with Math.random() = r / RandDen.  <<>> is a throw,
\* <<item>> the item returned.
weightedRandomSelect(items, r) ==
  IF Len(items) = 0 THEN <<>>
  ELSE LET totalWeight == SumWeights(items, Len(items))
           i == weightedLoop(items, 1, r * totalWeight)
       IN IF totalWeight <= 0 THEN <<>>
          ELSE IF i # 0 THEN <<items[i]>>
          ELSE <<items[Len(items)]>>

RECURSIVE Filter(_, _)
\* items.filter(item => !recentIds.includes(item.id))
Filter(items, recentIds) ==
  IF items = <<>> THEN <<>>
  ELSE LET rest == Filter(Tail(items), recentIds)
       IN IF \E k \in DOMAIN recentIds : recentIds[k] = Head(items).id
            THEN rest ELSE <<Head(items)>> \o rest

\* Mutant: nothing is cut off.
SliceAll(seq, n) == seq

\* recentResults.slice(0, n)
Slice(seq, n) == SubSeq(seq, 1, IF Len(seq) < n THEN Len(seq) ELSE n)

\* Mutant: the recent winners are not filtered out.
antiRepeatNoFilter(items, recentResults, avoidRecentCount, r) ==
  IF Len(items) = 0 THEN <<>> ELSE weightedRandomSelect(items, r)

antiRepeatRandomSelect(items, recentResults, avoidRecentCount, r) ==
  IF Len(items) = 0 THEN <<>>
  ELSE IF Len(items) <= avoidRecentCount THEN weightedRandomSelect(items, r)
  ELSE LET recentIds == Slice(recentResults, avoidRecentCount)
           availableItems == Filter(items, recentIds)
           targetItems == IF Len(availableItems) > 0 THEN availableItems ELSE items
       IN weightedRandomSelect(targetItems, r)

\* Mutant: the random offset spans the whole sector.
calculateRotationAngleFullJitter(items, selectedItem, baseRotations, r) ==
  IF Len(items) = 0 THEN 0
  ELSE LET found == {i \in 1..Len(items) : items[i].id = selectedItem.id}
       IN IF found = {} THEN baseRotations * 360
          ELSE LET anglePerItem == 360 \div Len(items)
                   randomOffset == ((2 * r - RandDen) * anglePerItem) \div (2 * RandDen)
               IN baseRotations * 360 + (360 - (MinOf(found) - 1) * anglePerItem)
                    + randomOffset

\* Mutant: an item that is not on the wheel is treated like index -1.
calculateRotationAngleNoCheck(items, selectedItem, baseRotations, r) ==
  IF Len(items) = 0 THEN 0
  ELSE LET found == {i \in 1..Len(items) : items[i].id = selectedItem.id}
           selectedIndex == IF found = {} THEN -1 ELSE MinOf(found) - 1
           anglePerItem == 360 \div Len(items)
           randomOffset == ((2 * r - RandDen) * anglePerItem * 8) \div (2 * RandDen * 10)
       IN baseRotations * 360 + (360 - selectedIndex * anglePerItem) + randomOffset

\* calculateRotationAngle with Math.random() = r / RandDen, in whole degrees
\* (exact when items.length divides 24, as the six built-in items do).
calculateRotationAngle(items, selectedItem, baseRotations, r) ==
  IF Len(items) = 0 THEN 0
  ELSE LET found == {i \in 1..Len(items) : items[i].id = selectedItem.id}
       IN IF found = {} THEN baseRotations * 360
          ELSE LET selectedIndex == MinOf(found) - 1
                   anglePerItem == 360 \div Len(items)
                   targetAngle == selectedIndex * anglePerItem
                   \* (r / RandDen - 0.5) * anglePerItem * 0.8
                   randomOffset == ((2 * r - RandDen) * anglePerItem * 8)
                                     \div (2 * RandDen * 10)
               IN baseRotations * 360 + (360 - targetAngle) + randomOffset

\* Mutant: the angle step is taken over one item more than there are.
generateItemPositionsWideStep(items, radius) ==
  [i \in DOMAIN items |->
     [ item |-> items[i], index |-> i - 1,
       angle |-> (i - 1) * (360 \div (Len(items) + 1)),
       xy |-> <<(i - 1) * (360 \div (Len(items) + 1)), radius>>,
       transform |-> <<(i - 1) * (360 \div (Len(items) + 1)), 0 - radius,
                       0 - (i - 1) * (360 \div (Len(items) + 1))>> ]]

\* generateItemPositions, in whole degrees (exact when items.length divides
\* 360). radian, x and y are the angle in another unit and the point at that
\* angle on the circle of the given radius: xy holds that angle and radius.
\* transform holds the three numbers of the CSS string.
generateItemPositions(items, radius) ==
  IF Len(items) = 0 THEN <<>>
  ELSE LET anglePerItem == 360 \div Len(items)
       IN [i \in DOMAIN items |->
             LET index == i - 1
                 angle == index * anglePerItem
             IN [ item |-> items[i], index |-> index, angle |-> angle,
                  xy |-> <<angle, radius>>,
                  transform |-> <<angle, 0 - radius, 0 - angle>> ]]

\* x.toFixed(1) for x = num / den >= 0, in tenths: the nearest tenth, the
\* larger one when two are equally near.
toFixed1(num, den) == (2 * 10 * num + den) \div (2 * den)

\* Mutant: each probability is taken over the number of items.
calculateProbabilitiesByCount(items) ==
  [i \in DOMAIN items |->
     [ id |-> items[i].id, weight |-> items[i].weight,
       probability |-> [num |-> items[i].weight * 100, den |-> Len(items)],
       probabilityText |-> toFixed1(items[i].weight * 100, Len(items)) ]]

\* calculateProbabilities: probability is the fraction num / den (a
\* percentage), probabilityText the tenths of a percent its string shows.
calculateProbabilities(items) ==
  IF Len(items) = 0 THEN <<>>
  ELSE LET totalWeight == SumWeights(items, Len(items))
       IN [i \in DOMAIN items |->
             [ id |-> items[i].id, weight |-> items[i].weight,
               probability |-> IF totalWeight > 0
                                 THEN [num |-> items[i].weight * 100, den |-> totalWeight]
                                 ELSE [num |-> 0, den |-> 1],
               probabilityText |-> IF totalWeight > 0
                                     THEN toFixed1(items[i].weight * 100, totalWeight)
                                     ELSE 0 ]]

createHistoryRecord(selectedItem, t) ==
  [itemId |-> selectedItem.id, timestamp |-> t]

(* --------------------------- HistoryStorage --------------------------- *)
\* Mutant: the list is not cut.
addRecordNoCap(records, record) == <<record>> \o records

\* records.unshift(record); if (records.length > 100) records.splice(100)
addRecord(records, record) == Slice(<<record>> \o records, HistoryCap)

\* saveRecords([])
clearRecords(records) == <<>>

\* HistoryStorage.saveRecords(records): the list given is what is stored.
saveRecords(records) == records

\* DataMigration.importData on a store holding `records`; data is the parsed
\* file: which of slotItems, appConfig and historyRecords it has, and the
\* history list. The result is the stored history afterwards.
importData(records, data) ==
  IF ~data.slotItems \/ ~data.appConfig THEN records
  ELSE IF data.hasHistory THEN saveRecords(data.historyRecords)
  ELSE records

(* ----------------------------- components ----------------------------- *)
\* App.handleSpin's and Wheel.handleSpin's duration for a theme, in clock units.
spinDuration(theme) ==
  IF theme = "rainbow" THEN 4 ELSE IF theme = "modern" THEN 5 ELSE 6

RECURSIVE ItemIds(_)
\* records.map(r => r.itemId)
ItemIds(records) ==
  IF records = <<>> THEN <<>>
  ELSE <<Head(records).itemId>> \o ItemIds(Tail(records))

\* The components right after mounting, with `stored` in the history store.
Mounted(theme, stored) ==
  [ items |-> DEFAULT_ITEMS,            \* App.items
    theme |-> theme,                    \* App.currentTheme.id
    isSpinning |-> FALSE,               \* App.isSpinning
    historyRecords |-> stored,          \* App.historyRecords
    selectedItem |-> <<>>,              \* SlotMachine.selectedItem, <<>> = undefined
    lastResult |-> <<>>,                \* SlotMachine.lastResult
    showResult |-> FALSE,               \* SlotMachine.showResult
    spinCount |-> Len(stored),          \* SlotMachine.spinCount
    recentResults |-> ItemIds(Slice(stored, 3)),  \* SlotMachine.recentResults
    isPulling |-> FALSE,                \* Lever.isPulling
    pullCount |-> 0,                    \* Lever.pullCount
    wheelRotation |-> 0,                \* Wheel.currentRotation
    hasController |-> TRUE,             \* Wheel.animationController.current
    awaiting |-> <<>>,                  \* Wheel.handleSpin suspended at its await
    leverTimers |-> {},                 \* Lever.handlePull's setTimeout
    spinTimers |-> {},                  \* App.handleSpin's setTimeout
    history |-> stored,                 \* HistoryStorage records
    pulls |-> <<>>,                     \* winners drawn by accepted pulls
    completed |-> <<>> ]                \* winners passed to onSpinComplete

\* Lever.handlePull past its guard; the timeout keeps the onPull of this
\* render, i.e. handleLeverPull closed over isSpinning, items, recentResults.
handlePull(a, t) ==
  [a EXCEPT !.isPulling = TRUE,
            !.pullCount = @ + 1,
            !.leverTimers = @ \cup {[ due |-> t + LeverDelay,
                                      isSpinning |-> a.isSpinning,
                                      items |-> a.items,
                                      recentResults |-> a.recentResults ]}]

\* Lever.handlePull, guard included.
leverClick(a, isDisabled, t) ==
  IF isDisabled \/ a.isPulling THEN a ELSE handlePull(a, t)

\* Mutant: the flag is set and no timer is started.
appHandleSpinNoTimer(a, selectedItem, t) == [a EXCEPT !.isSpinning = TRUE]

\* App.handleSpin
appHandleSpin(a, selectedItem, t) ==
  [a EXCEPT !.isSpinning = TRUE,
            !.spinTimers = @ \cup {[due |-> t + spinDuration(a.theme)]}]

\* SlotMachine.handleLeverPull as closed over `c`.
handleLeverPull(a, c, r, t) ==
  IF c.isSpinning \/ Len(c.items) = 0 THEN a
  ELSE LET result == antiRepeatRandomSelect(c.items, c.recentResults, AvoidRecent, r)
       IN IF result = <<>> THEN a
          ELSE appHandleSpin([a EXCEPT !.selectedItem = result,
                                       !.showResult = FALSE,
                                       !.pulls = Append(@, result[1].id)],
                             result[1], t)

\* SlotMachine.handleSpinComplete
handleSpinComplete(a, result, t) ==
  [a EXCEPT !.lastResult = <<result>>,
            !.showResult = TRUE,
            !.history = addRecord(@, createHistoryRecord(result, t)),
            !.recentResults = <<result.id>> \o Slice(@, 2),
            !.spinCount = @ + 1,
            !.completed = Append(@, result.id)]

\* A pair of the components and the controller they drive.
Both(a, w) == [app |-> a, world |-> w]

\* Wheel.handleSpin up to its await, as rendered with isSpinning = spinningProp.
wheelHandleSpin(a, w, spinningProp, targetItem, r, t) ==
  IF ~a.hasController \/ spinningProp THEN Both(a, w)
  ELSE LET rotationAngle == calculateRotationAngle(a.items, targetItem, BaseRotations, r)
           p == Len(w.spins) + 1
       IN Both([a EXCEPT !.awaiting = [q \in DOMAIN @ \cup {p} |->
                                         IF q = p
                                           THEN [item |-> targetItem, angle |-> rotationAngle]
                                           ELSE @[q]]],
               spin(w, rotationAngle, spinDuration(a.theme), t))

\* Wheel's effect on [selectedItem, isSpinning, handleSpin]: it runs after a
\* render that changed one of them (`old` is the render before) and calls
\* handleSpin when selectedItem && isSpinning.
wheelEffectCalls(old, a) ==
  /\ \/ old.selectedItem # a.selectedItem
     \/ old.isSpinning # a.isSpinning
     \/ old.items # a.items
     \/ old.theme # a.theme
  /\ a.selectedItem # <<>>
  /\ a.isSpinning

RECURSIVE resumeAwaits(_, _, _, _)
\* Wheel.handleSpin after its await, for every spin in ps that was fulfilled.
resumeAwaits(a, w, ps, t) ==
  IF ps = {} THEN a
  ELSE LET p == MinOf(ps)
           k == a.awaiting[p]
           a1 == [a EXCEPT !.awaiting = [q \in DOMAIN @ \ {p} |-> @[q]]]
       IN IF w.spins[p].outcome = "resolved"
            THEN resumeAwaits(handleSpinComplete([a1 EXCEPT !.wheelRotation = k.angle % 360],
                                                 k.item, t),
                              w, ps \ {p}, t)
          ELSE IF w.spins[p].outcome = "pending"
            THEN resumeAwaits(a, w, ps \ {p}, t)
          ELSE resumeAwaits(a1, w, ps \ {p}, t)

(* ------------------------------ actions ------------------------------- *)
Init ==
  /\ world \in [ element : BOOLEAN, isSpinning : {FALSE}, currentRotation : {0},
                 animationId : {NoHandle}, transform : {NoTransform},
                 rafQueue : {<<>>}, nextHandle : {1}, spins : {<<>>} ]
  /\ now = 0
  /\ last = [op |-> "init"]
  /\ epoch = 1
  /\ app = Mounted("classic", <<>>)

Spin ==
  \E targetAngle \in Deltas, duration \in Durations :
    /\ Len(spins) < MaxCalls
    /\ now + duration <= MaxTime
    /\ world' = spin(world, targetAngle, duration, now)
    /\ last' = [op |-> "spin", pre |-> world]
    /\ UNCHANGED <<now, epoch, app>>

Stop ==
  /\ world' = stop(world)
  /\ last' = [op |-> "stop", pre |-> world]
  /\ UNCHANGED <<now, epoch, app>>

Reset ==
  /\ world' = reset(world)
  /\ last' = [op |-> "reset", pre |-> world]
  /\ epoch' = Len(spins) + 1
  /\ UNCHANGED <<now, app>>

\* The host delivers a frame dt clock units after the previous one.  A frame
\* with nothing queued runs no code of the controller and is left out.
Frame ==
  \E dt \in Steps :
    /\ now + dt <= MaxTime
    /\ DOMAIN rafQueue # {}
    /\ now' = now + dt
    /\ world' = RunCallbacks(world, DOMAIN rafQueue, now + dt)
    /\ last' = [op |-> "frame", pre |-> world]
    /\ UNCHANGED <<epoch, app>>

vars == <<world, now, last, epoch, app>>

Next == Spin \/ Stop \/ Reset \/ Frame

Spec == Init /\ [][Next]_vars

\* The host keeps delivering frames.
FairSpec == Spec /\ WF_vars(Frame)


(* ----------------------- the application's actions -------------------- *)
StoredHistories ==
  { <<>>,
    << [itemId |-> "default_2", timestamp |-> 0],
       [itemId |-> "default_1", timestamp |-> 0] >> }

AppInit ==
  /\ world = [ element |-> TRUE, isSpinning |-> FALSE, currentRotation |-> 0,
               animationId |-> NoHandle, transform |-> NoTransform,
               rafQueue |-> <<>>, nextHandle |-> 1, spins |-> <<>> ]
  /\ now = 0
  /\ last = [op |-> "init"]
  /\ epoch = 1
  /\ \E theme \in Themes, stored \in StoredHistories : app = Mounted(theme, stored)

\* The clock never passes a timer that is due: timers fire on time.
NoTimerBefore(t) ==
  \A tm \in app.leverTimers \cup app.spinTimers : t <= tm.due

\* A click on the lever: Lever.handlePull as rendered with isDisabled =
\* App.isSpinning. A click that is let through is made while there is time
\* left for its two timers.
LeverClick ==
  /\ (app.isSpinning \/ app.isPulling)
       \/ now + LeverDelay + spinDuration(app.theme) <= MaxAppTime
  /\ app' = leverClick(app, app.isSpinning, now)
  /\ last' = [op |-> "click", pre |-> world, isDisabled |-> app.isSpinning]
  /\ UNCHANGED <<world, now, epoch>>

\* The render that follows a state change to `a`, and the Wheel's effect.
Render(a) ==
  IF wheelEffectCalls(app, a)
    THEN \E r \in Rand :
           \E res \in {wheelHandleSpin(a, world, a.isSpinning, a.selectedItem[1], r, now)} :
             app' = res.app /\ world' = res.world
    ELSE app' = a /\ world' = world

\* The lever's timeout fires: onPull(), setIsPulling(false), then the render.
LeverTimeout ==
  \E tm \in app.leverTimers, r \in Rand :
    /\ tm.due <= now
    /\ \E a \in {[handleLeverPull([app EXCEPT !.leverTimers = @ \ {tm}], tm, r, now)
                    EXCEPT !.isPulling = FALSE]} : Render(a)
    /\ last' = [op |-> "leverTimeout", pre |-> world]
    /\ UNCHANGED <<now, epoch>>

\* App.handleSpin's timeout fires, then the render.
SpinTimeout ==
  \E tm \in app.spinTimers :
    /\ tm.due <= now
    /\ \E a \in {[app EXCEPT !.spinTimers = @ \ {tm},
                                !.isSpinning = FALSE,
                                !.historyRecords = app.history]} : Render(a)
    /\ last' = [op |-> "spinTimeout", pre |-> world]
    /\ UNCHANGED <<now, epoch>>

\* The host delivers a frame dt clock units later: queued callbacks run, then
\* every Wheel.handleSpin whose promise was settled resumes.
AppFrame ==
  \E dt \in Steps :
    /\ now + dt <= MaxAppTime
    /\ NoTimerBefore(now + dt)
    /\ now' = now + dt
    /\ \E w1 \in {RunCallbacks(world, DOMAIN rafQueue, now + dt)} :
         /\ world' = w1
         /\ app' = resumeAwaits(app, w1, DOMAIN app.awaiting, now + dt)
    /\ last' = [op |-> "frame", pre |-> world]
    /\ UNCHANGED epoch

\* An accepted pull takes at least the lever's delay and the shortest spin.
PullIds == 1..(MaxAppTime \div (LeverDelay + spinDuration("rainbow")))

AppNext == LeverClick \/ LeverTimeout \/ SpinTimeout \/ AppFrame

AppSpec == AppInit /\ [][AppNext]_vars

\* Frames keep coming and due timers fire.
FairAppSpec ==
  AppSpec /\ WF_vars(AppFrame) /\ WF_vars(LeverTimeout) /\ WF_vars(SpinTimeout)

(* ------------------ the Wheel driven spin after spin ------------------ *)
\* Wheel.handleSpin(targetItem) of a render in which the isSpinning prop is
\* false, for an item of the wheel.
\* The draws of Math.random() tried for the jitter: both ends and the middle.
JitterDraws == {0, RandDen \div 2, RandDen - 1}

WheelSpin ==
  \E i \in DOMAIN app.items, r \in JitterDraws :
    /\ Len(spins) < MaxCalls
    /\ now + spinDuration(app.theme) <= MaxAppTime
    /\ \E res \in {wheelHandleSpin(app, world, FALSE, app.items[i], r, now)} :
         app' = res.app /\ world' = res.world
    /\ last' = [op |-> "wheelSpin", pre |-> world]
    /\ UNCHANGED <<now, epoch>>

WheelNext == WheelSpin \/ AppFrame

WheelSpec == AppInit /\ [][WheelNext]_vars

(* ------------------- LotteryEngine called on its own ------------------- *)
\* The pools the engine is called with: the built-in items, and every list
\* of up to three items with weights from Weights (stored and imported
\* items are not validated, so weights of 0 and below occur).
PoolIds == <<"a", "b", "c">>
Weights == {-1, 0, 1, 2}
\* Pools in which two items have the same id, as a reload after an edit of a
\* built-in item produces them.
SharedIdPools ==
  { << [id |-> "a", weight |-> 1, isDefault |-> TRUE],
       [id |-> "b", weight |-> 1, isDefault |-> TRUE],
       [id |-> "a", weight |-> 2, isDefault |-> FALSE] >>,
    << [id |-> "a", weight |-> 1, isDefault |-> TRUE],
       [id |-> "a", weight |-> 2, isDefault |-> FALSE] >> }

Pools ==
  {DEFAULT_ITEMS} \cup SharedIdPools \cup
  UNION { { [i \in 1..n |-> [id |-> PoolIds[i], weight |-> ws[i], isDefault |-> FALSE]]
              : ws \in [1..n -> Weights] }
          : n \in 0..Len(PoolIds) }

\* recentResults arguments: up to two ids, repeated or not, and two lists of
\* three.
RecentLists ==
  UNION { [1..n -> {"a", "b", "c"}] : n \in 0..2 }
    \cup {<<"a", "b", "c">>, <<"c", "c", "a">>}

\* avoidRecentCount arguments.
AvoidCounts == 0..3

\* baseRotations arguments.
BaseTurns == {1, BaseRotations}

\* An item that is on no wheel.
StrayItem == [id |-> "stray", weight |-> 1, isDefault |-> FALSE]

EngineInit ==
  /\ world = [ element |-> TRUE, isSpinning |-> FALSE, currentRotation |-> 0,
               animationId |-> NoHandle, transform |-> NoTransform,
               rafQueue |-> <<>>, nextHandle |-> 1, spins |-> <<>> ]
  /\ now = 0
  /\ last = [op |-> "init"]
  /\ epoch = 1
  /\ \E items \in Pools : app = [items |-> items]

\* One call of LotteryEngine.weightedRandomSelect(items).
WeightedSelect ==
  \E r \in Rand :
    /\ last.op = "init"
    /\ last' = [ op |-> "weightedRandomSelect", r |-> r,
                 result |-> weightedRandomSelect(app.items, r) ]
    /\ UNCHANGED <<world, now, epoch, app>>

\* One call of LotteryEngine.antiRepeatRandomSelect(items, recentResults,
\* avoidRecentCount).
AntiRepeatSelect ==
  \E recentResults \in RecentLists, avoidRecentCount \in AvoidCounts, r \in Rand :
    /\ last.op = "init"
    /\ last' = [ op |-> "antiRepeatRandomSelect", r |-> r,
                 recentResults |-> recentResults,
                 avoidRecentCount |-> avoidRecentCount,
                 result |-> antiRepeatRandomSelect(app.items, recentResults,
                                                   avoidRecentCount, r) ]
    /\ UNCHANGED <<world, now, epoch, app>>

\* One call of LotteryEngine.calculateRotationAngle(items, selectedItem,
\* baseRotations).
RotationAngle ==
  \E i \in 0..Len(app.items), baseRotations \in BaseTurns, r \in Rand :
    /\ last.op = "init"
    /\ last' = [ op |-> "calculateRotationAngle", r |-> r,
                 selectedItem |-> IF i = 0 THEN StrayItem ELSE app.items[i],
                 baseRotations |-> baseRotations,
                 result |-> calculateRotationAngle(
                              app.items, IF i = 0 THEN StrayItem ELSE app.items[i],
                              baseRotations, r) ]
    /\ UNCHANGED <<world, now, epoch, app>>

\* One call of LotteryEngine.calculateProbabilities(items).
Probabilities ==
  /\ last.op = "init"
  /\ last' = [ op |-> "calculateProbabilities",
               result |-> calculateProbabilities(app.items) ]
  /\ UNCHANGED <<world, now, epoch, app>>

\* radius arguments (150 is the default).
Radii == {100, 150}

\* Two calls of LotteryEngine.generateItemPositions(items, radius), one after
\* the other, with the same arguments.
Layout ==
  /\ last.op = "init"
  /\ \E radius \in Radii :
       \E first \in {generateItemPositions(app.items, radius)} :
         \E second \in {generateItemPositions(app.items, radius)} :
           last' = [ op |-> "generateItemPositions", radius |-> radius,
                     first |-> first, second |-> second ]
  /\ UNCHANGED <<world, now, epoch, app>>

EngineNext ==
  \/ WeightedSelect
  \/ AntiRepeatSelect
  \/ RotationAngle
  \/ Probabilities
  \/ Layout

EngineSpec == EngineInit /\ [][EngineNext]_vars

(* ------------------- HistoryStorage called on its own ------------------ *)
\* A history of n records with timestamps -1, -2, .., -n, newest first.
OlderRecords(n) == [i \in 1..n |-> [itemId |-> "default_1", timestamp |-> -i]]

\* What the store holds at the start: nothing, or a full history.
StoredRecords == {<<>>, OlderRecords(HistoryCap)}

\* Lists handed to saveRecords() and found in imported files.
RecordLists == {OlderRecords(2), OlderRecords(HistoryCap + 1)}

\* Imported files: with or without slotItems, appConfig and historyRecords.
ImportFiles ==
  [ slotItems : BOOLEAN, appConfig : BOOLEAN, hasHistory : BOOLEAN,
    historyRecords : RecordLists ]

\* app.history is the stored list; app.added lists every record stored
\* since the store was last emptied, newest first and never cut.
HistoryInit ==
  /\ world = [ element |-> TRUE, isSpinning |-> FALSE, currentRotation |-> 0,
               animationId |-> NoHandle, transform |-> NoTransform,
               rafQueue |-> <<>>, nextHandle |-> 1, spins |-> <<>> ]
  /\ now = 0
  /\ last = [op |-> "init"]
  /\ epoch = 1
  /\ \E stored \in StoredRecords : app = [history |-> stored, added |-> stored]

\* HistoryStorage.addRecord(createHistoryRecord(item)); the clock moves on, so
\* every record differs from the ones before.
AddRecord ==
  /\ now < MaxAdds
  /\ \E record \in {createHistoryRecord(DEFAULT_ITEMS[(now % Len(DEFAULT_ITEMS)) + 1], now)} :
       /\ app' = [ history |-> addRecord(app.history, record),
                   added |-> <<record>> \o app.added ]
       /\ last' = [op |-> "addRecord", record |-> record, pre |-> app.history]
  /\ now' = now + 1
  /\ UNCHANGED <<world, epoch>>

\* HistoryStorage.clearRecords()
ClearRecords ==
  /\ app' = [history |-> clearRecords(app.history), added |-> <<>>]
  /\ last' = [op |-> "clearRecords"]
  /\ UNCHANGED <<world, now, epoch>>

\* HistoryStorage.saveRecords(records)
SaveRecords ==
  /\ \E records \in RecordLists :
       /\ app' = [history |-> saveRecords(records), added |-> records]
       /\ last' = [op |-> "saveRecords"]
  /\ UNCHANGED <<world, now, epoch>>

\* DataMigration.importData(jsonData)
ImportData ==
  /\ \E data \in ImportFiles :
       \E stored \in {importData(app.history, data)} :
         /\ app' = [ history |-> stored,
                     added |-> IF stored = app.history THEN app.added ELSE stored ]
         /\ last' = [op |-> "importData"]
  /\ UNCHANGED <<world, now, epoch>>

HistoryNext == AddRecord \/ ClearRecords \/ SaveRecords \/ ImportData

HistorySpec == HistoryInit /\ [][HistoryNext]_vars

(* ------------------------- the configuration dialog -------------------- *)
\* What the user types into the text field and the weight field (the weight
\* field stores parseInt(value) || 1, so 0 is never stored).
FormTexts == {"", "t1", " new ", "long"}
FormWeights == {-1, 2, 101}

\* text.trim() and text.length on the texts of the model; "long" stands for
\* a text of 21 characters, the built-in texts have four.
Trim(text) == IF text = " new " THEN "new" ELSE text
TextLength(text) ==
  IF text = "" THEN 0
  ELSE IF text = "new" THEN 3
  ELSE IF text = " new " THEN 5
  ELSE IF text = "long" THEN 21
  ELSE 4
TooLong(text) == TextLength(text) > 20

\* Ids of the items added: custom_<Date.now()>_<random>, all different.
CustomIds == <<"custom_1", "custom_2", "custom_3", "custom_4">>

EmptyForm == [text |-> "", weight |-> 1]

\* App.items and ConfigModal's state, with the stored custom items.
ConfigMounted(items) ==
  [ items |-> items,               \* App.items
    editingItem |-> <<>>,          \* ConfigModal.editingItem, <<>> = null
    isEditing |-> FALSE,           \* ConfigModal.isEditing
    formData |-> EmptyForm,        \* ConfigModal.formData (text, weight)
    hasErrors |-> FALSE,           \* ConfigModal.validationErrors is not empty
    customItems |-> <<>>,          \* SlotItemStorage custom items
    saved |-> 0 ]                  \* items saved so far

resetForm(a) ==
  [a EXCEPT !.formData = EmptyForm, !.editingItem = <<>>,
            !.isEditing = FALSE, !.hasErrors = FALSE]

validateForm(a) ==
  /\ Trim(a.formData.text) # ""
  /\ ~TooLong(a.formData.text)
  /\ a.formData.weight > 0
  /\ a.formData.weight <= 100
  /\ \A i \in DOMAIN a.items :
       (a.editingItem = <<>> \/ a.items[i].id # a.editingItem[1].id)
         => a.items[i].text # a.formData.text

startEdit(a, item) ==
  [a EXCEPT !.editingItem = <<item>>,
            !.formData = [text |-> item.text, weight |-> item.weight],
            !.isEditing = TRUE, !.hasErrors = FALSE]

startAdd(a) == [resetForm(a) EXCEPT !.isEditing = TRUE]

RECURSIVE NotDefault(_)
\* items.filter(item => !item.isDefault)
NotDefault(items) ==
  IF items = <<>> THEN <<>>
  ELSE IF Head(items).isDefault THEN NotDefault(Tail(items))
  ELSE <<Head(items)>> \o NotDefault(Tail(items))

RECURSIVE WithoutId(_, _)
\* items.filter(i => i.id !== id)
WithoutId(items, id) ==
  IF items = <<>> THEN <<>>
  ELSE IF Head(items).id = id THEN WithoutId(Tail(items), id)
  ELSE <<Head(items)>> \o WithoutId(Tail(items), id)

saveItem(a) ==
  IF ~validateForm(a) THEN [a EXCEPT !.hasErrors = TRUE]
  ELSE LET newItem == [ id |-> IF a.editingItem # <<>> THEN a.editingItem[1].id
                                                      ELSE CustomIds[a.saved + 1],
                        text |-> Trim(a.formData.text),
                        weight |-> a.formData.weight,
                        isDefault |-> FALSE ]
           updatedItems ==
             IF a.editingItem # <<>>
               THEN [i \in DOMAIN a.items |->
                       IF a.items[i].id = a.editingItem[1].id THEN newItem ELSE a.items[i]]
               ELSE Append(a.items, newItem)
       IN resetForm([a EXCEPT !.items = updatedItems,
                              !.customItems = NotDefault(updatedItems),
                              !.saved = @ + 1])

deleteItem(a, item) ==
  IF item.isDefault THEN a
  ELSE LET updatedItems == WithoutId(a.items, item.id)
       IN [a EXCEPT !.items = updatedItems, !.customItems = NotDefault(updatedItems)]

resetToDefault(a, confirmed) ==
  IF confirmed THEN [a EXCEPT !.items = DEFAULT_ITEMS, !.customItems = <<>>] ELSE a

\* SlotItemStorage.getItems(): the stored built-in list, which is always
\* DEFAULT_ITEMS (initializeApp is its only writer), then the custom items.
getItems(customItems) == DEFAULT_ITEMS \o customItems

ConfigInit ==
  /\ world = [ element |-> TRUE, isSpinning |-> FALSE, currentRotation |-> 0,
               animationId |-> NoHandle, transform |-> NoTransform,
               rafQueue |-> <<>>, nextHandle |-> 1, spins |-> <<>> ]
  /\ now = 0
  /\ last = [op |-> "init"]
  /\ epoch = 1
  /\ app = ConfigMounted(DEFAULT_ITEMS)

\* A click on an item's edit button.
StartEdit ==
  \E i \in DOMAIN app.items :
    /\ app' = startEdit(app, app.items[i])
    /\ last' = [op |-> "form"]
    /\ UNCHANGED <<world, now, epoch>>

\* A click on the add button.
StartAdd ==
  /\ app' = startAdd(app)
  /\ last' = [op |-> "form"]
  /\ UNCHANGED <<world, now, epoch>>

\* Typing into the form, which is shown while isEditing.
EditForm ==
  /\ app.isEditing
  /\ \/ \E text \in FormTexts : app' = [app EXCEPT !.formData.text = text]
     \/ \E weight \in FormWeights : app' = [app EXCEPT !.formData.weight = weight]
  /\ last' = [op |-> "form"]
  /\ UNCHANGED <<world, now, epoch>>

\* A click on the form's save button.
SaveItem ==
  /\ app.isEditing
  /\ app.saved < MaxSaves
  /\ app' = saveItem(app)
  /\ last' = [op |-> "saveItem", pre |-> app]
  /\ UNCHANGED <<world, now, epoch>>

\* A click on the form's cancel button.
CancelForm ==
  /\ app.isEditing
  /\ app' = resetForm(app)
  /\ last' = [op |-> "form"]
  /\ UNCHANGED <<world, now, epoch>>

\* A click on an item's delete button, shown for items with isDefault false.
DeleteItem ==
  \E i \in DOMAIN app.items :
    /\ ~app.items[i].isDefault
    /\ app' = deleteItem(app, app.items[i])
    /\ last' = [op |-> "deleteItem"]
    /\ UNCHANGED <<world, now, epoch>>

\* A click on the reset button; the user confirms or not.
ResetToDefault ==
  \E confirmed \in BOOLEAN :
    /\ app' = resetToDefault(app, confirmed)
    /\ last' = [op |-> "resetToDefault"]
    /\ UNCHANGED <<world, now, epoch>>

\* The page is loaded again: App reads the items from the store and the
\* dialog starts afresh.
Reload ==
  /\ app' = [ConfigMounted(getItems(app.customItems))
               EXCEPT !.customItems = app.customItems, !.saved = app.saved]
  /\ last' = [op |-> "reload"]
  /\ UNCHANGED <<world, now, epoch>>

ConfigNext ==
  \/ StartEdit \/ StartAdd \/ EditForm \/ SaveItem \/ CancelForm
  \/ DeleteItem \/ ResetToDefault \/ Reload

ConfigSpec == ConfigInit /\ [][ConfigNext]_vars

TypeOK ==
  /\ element \in BOOLEAN
  /\ isSpinning \in BOOLEAN
  /\ currentRotation \in Int
  /\ animationId \in Nat
  /\ now \in 0..MaxTime
  /\ Len(spins) <= MaxCalls

(* ------------------------- derived predicates ------------------------- *)
CallIds == 1..MaxCalls

\* Spin call p has a frame callback waiting in the host's queue.
Scheduled(w, p) == \E h \in DOMAIN w.rafQueue : w.rafQueue[h] = p

\* Spin call p was accepted, is not settled and has no callback left: it was
\* cut short by stop() or reset().
Cancelled(w, p) ==
  /\ p \in DOMAIN w.spins
  /\ w.spins[p].outcome = "pending"
  /\ ~Scheduled(w, p)

\* What a caller can observe of the controller, plus the pending handle.
Ctl(w) ==
  [ isSpinning |-> w.isSpinning, currentRotation |-> w.currentRotation,
    animationId |-> w.animationId, transform |-> w.transform ]

\* Spin call p settled as fulfilled in the step that produced this state.
CompletedNow(p) ==
  /\ last.op = "frame"
  /\ p \in DOMAIN last.pre.spins
  /\ last.pre.spins[p].outcome = "pending"
  /\ spins[p].outcome = "resolved"

RECURSIVE SumResolved(_, _)
SumResolved(ss, from) ==
  IF from > Len(ss) THEN 0
  ELSE (IF ss[from].outcome = "resolved" THEN ss[from].totalRotation ELSE 0)
       + SumResolved(ss, from + 1)

(* ------------------------------- C1 ----------------------------------- *)
\* C1: a spin() made while isSpinning is true is rejected with the
\* already-spinning error and changes nothing: rotation, isSpinning, the
\* frame handle, the queued callback and the in-flight call's closure and
\* promise are as before, and the in-flight callback is still scheduled.
C1_SingleFlight ==
  (last.op = "spin" /\ last.pre.isSpinning) =>
    /\ spins[Len(spins)].outcome = "AlreadySpinning"
    /\ Ctl(world) = Ctl(last.pre)
    /\ rafQueue = last.pre.rafQueue
    /\ nextHandle = last.pre.nextHandle
    /\ SubSeq(spins, 1, Len(spins) - 1) = last.pre.spins
    /\ animationId \in DOMAIN rafQueue
    /\ spins[rafQueue[animationId]].outcome = "pending"

C1_Witness ==
  /\ last.op = "spin"
  /\ last.pre.isSpinning
  /\ \E p \in DOMAIN last.pre.spins :
       Scheduled(last.pre, p) /\ last.pre.spins[p].ticks > 0


(* ------------------------------- C2 ----------------------------------- *)
\* C2: every accepted lever pull, which draws a winner, is eventually
\* followed by a fulfilled wheel spin, by onSpinComplete being called with
\* that winner and by a history record for that winner being stored.
C2_EndToEnd ==
  \A n \in PullIds :
    (Len(app.pulls) >= n)
      ~> /\ Len(app.completed) >= n
         /\ app.completed[n] = app.pulls[n]
         /\ \E p \in DOMAIN spins : spins[p].outcome = "resolved"
         /\ \E i \in DOMAIN app.history : app.history[i].itemId = app.pulls[n]

(* ------------------------------- C3 ----------------------------------- *)
\* C3: with frames being delivered, every accepted spin that is not cut
\* short by stop() or reset() is eventually fulfilled, and the step that
\* fulfils it is a tick with progress = 1 that leaves the controller Idle.
C3_SpinCompletes ==
  /\ \A p \in CallIds :
       (p \in DOMAIN spins /\ spins[p].outcome = "pending")
         ~> (p \in DOMAIN spins
               /\ (spins[p].outcome = "resolved" \/ Cancelled(world, p)))
  /\ [](\A p \in DOMAIN spins :
          CompletedNow(p) =>
            /\ now - spins[p].startTime >= spins[p].duration
            /\ ~isSpinning
            /\ animationId = NoHandle)

C3_Witness ==
  \E p \in DOMAIN spins : CompletedNow(p) /\ spins[p].ticks >= 2

(* ------------------------------- C4 ----------------------------------- *)
\* C4: resolve() of an accepted spin is called at most once, only by a
\* frame tick at which elapsed >= duration (progress = 1); no other step
\* (tick with progress < 1, spin, stop, reset) fulfils a promise, and a
\* fulfilled promise is never fulfilled again.
C4_ExactlyOnce ==
  [][\A p \in DOMAIN spins' :
       LET before == IF p \in DOMAIN spins THEN spins[p].resolves ELSE 0
       IN /\ spins'[p].resolves <= 1
          /\ (spins'[p].outcome = "resolved") = (spins'[p].resolves = 1)
          /\ spins'[p].resolves # before =>
               /\ before = 0
               /\ last'.op = "frame"
               /\ p \in DOMAIN spins /\ spins[p].outcome = "pending"
               /\ now' - spins'[p].startTime >= spins'[p].duration]_vars

C4_Witness ==
  \E p \in DOMAIN spins :
    /\ spins[p].resolves = 1
    /\ spins[p].ticks >= 2
    /\ last.op \in {"stop", "reset", "spin", "frame"}
    /\ last.pre.spins[p].resolves = 1

(* ------------------------------- C5 ----------------------------------- *)
\* C5: right after stop() during a spin isSpinning is false, no handle and
\* no frame callback is pending and the rotation is the one before the
\* call; from then on the cancelled spin never ticks again (so it never
\* writes the rotation) and its promise is never fulfilled.
C5_CancelImmediate ==
  [][/\ (last'.op = "stop" /\ last'.pre.isSpinning) =>
          /\ ~isSpinning'
          /\ animationId' = NoHandle
          /\ DOMAIN rafQueue' = {}
          /\ currentRotation' = currentRotation
     /\ \A p \in DOMAIN spins :
          Cancelled(world, p) => (spins'[p] = spins[p] /\ Cancelled(world', p))]_vars

C5_Witness ==
  /\ last.op = "frame"
  /\ \E p \in DOMAIN spins :
       /\ Cancelled(last.pre, p)
       /\ spins[p].ticks > 0
       /\ ~isSpinning

(* ------------------------------- C6 ----------------------------------- *)
\* C6: the promise of a spin that was cancelled eventually settles with an
\* explicit cancellation outcome.
C6_CancelSettles ==
  \A p \in CallIds :
    Cancelled(world, p) ~> (p \in DOMAIN spins /\ spins[p].outcome = "cancelled")

(* ------------------------------- C7 ----------------------------------- *)
\* C7: reset() applied to any reachable controller state yields rotation 0,
\* isSpinning false, no handle and no queued callback, and reset() applied
\* to that result changes nothing.
C7_Reset ==
  LET r == reset(world)
  IN /\ r.currentRotation = 0
     /\ ~r.isSpinning
     /\ r.animationId = NoHandle
     /\ DOMAIN r.rafQueue = {}
     /\ reset(r) = r
     /\ last.op = "reset" => world = reset(last.pre)

C7_Witness ==
  /\ last.op = "reset"
  /\ last.pre.isSpinning
  /\ last.pre.currentRotation # 0
  /\ currentRotation = 0

(* ------------------------------- C8 ----------------------------------- *)
\* C8: stop() while Idle changes nothing: rotation, isSpinning, handle,
\* queue and every promise are as before.
C8_StopIdleNoop ==
  (last.op = "stop" /\ ~last.pre.isSpinning) => world = last.pre

C8_Witness ==
  /\ last.op = "stop"
  /\ ~last.pre.isSpinning
  /\ last.pre.currentRotation # 0
  /\ \E p \in DOMAIN spins : spins[p].outcome = "resolved"

(* ------------------------------- C9 ----------------------------------- *)
\* C9: on a controller without a target element every spin() is rejected
\* with the no-target error, the controller never spins, nothing is
\* scheduled and the rotation is unchanged.
C9_NoTarget ==
  ~element =>
    /\ ~isSpinning
    /\ animationId = NoHandle
    /\ DOMAIN rafQueue = {}
    /\ \A p \in DOMAIN spins : spins[p].outcome = "NoTarget"
    /\ last.op = "spin" =>
         /\ Ctl(world) = Ctl(last.pre)
         /\ rafQueue = last.pre.rafQueue

C9_Witness == ~element /\ last.op = "spin" /\ Len(spins) >= 2

(* ------------------------------- C10 ---------------------------------- *)
\* C10: the tick that completes a spin started at angle A with delta D
\* stores exactly A + D, A being the rotation at the time of the call; and
\* when every spin accepted since the latest reset has completed, the
\* rotation is the plain sum of their deltas (no reduction mod 360).
C10_Additive ==
  /\ \A p \in DOMAIN spins :
       CompletedNow(p) =>
         currentRotation = spins[p].startRotation + spins[p].totalRotation * AngleScale
  /\ (last.op = "spin" /\ spins[Len(spins)].outcome = "pending") =>
       spins[Len(spins)].startRotation = last.pre.currentRotation
  /\ (\A p \in epoch..Len(spins) : spins[p].outcome # "pending") =>
       currentRotation = SumResolved(spins, epoch) * AngleScale

C10_Witness ==
  /\ \E p \in DOMAIN spins : CompletedNow(p) /\ p > epoch
  /\ \A p \in epoch..Len(spins) : spins[p].outcome = "resolved"
  /\ currentRotation > 360 * AngleScale

(* ------------------------------- C11 ---------------------------------- *)
\* The position (1-based) of the item with this id on the wheel.
IndexOf(items, id) == MinOf({i \in DOMAIN items : items[i].id = id})

\* With the wheel turned by `rotation` (in 1/AngleScale degree), the item
\* laid out at index * anglePerItem is less than half a sector away from the
\* pointer at the top.
UnderPointer(items, id, rotation) ==
  LET anglePerItem == (360 * AngleScale) \div Len(items)
      at == (rotation + (IndexOf(items, id) - 1) * anglePerItem) % (360 * AngleScale)
  IN 2 * at < anglePerItem \/ 2 * (360 * AngleScale - at) < anglePerItem

\* C11: whenever a spin started by the Wheel completes, first or later, the
\* wheel's final angle leaves the chosen item's sector under the pointer.
C11_LandsOnWinner ==
  \A p \in DOMAIN spins :
    (CompletedNow(p) /\ app.completed # <<>>) =>
      UnderPointer(app.items, app.completed[Len(app.completed)], currentRotation)

(* ------------------------------- C12 ---------------------------------- *)
\* The ids recentResults.slice(0, n) holds.
RecentIdSet(recentResults, n) ==
  {recentResults[k] : k \in {j \in DOMAIN recentResults : j <= n}}

UniqueIds(items) ==
  \A i, j \in DOMAIN items : items[i].id = items[j].id => i = j

\* C12: on a pool of unique ids that is longer than avoidRecentCount,
\* antiRepeatRandomSelect never returns an item whose id is among the first
\* avoidRecentCount recent ids.
C12_AntiRepeat ==
  ( /\ last.op = "antiRepeatRandomSelect"
    /\ UniqueIds(app.items)
    /\ Len(app.items) > last.avoidRecentCount
    /\ last.result # <<>> ) =>
      last.result[1].id \notin RecentIdSet(last.recentResults, last.avoidRecentCount)

C12_Witness ==
  /\ last.op = "antiRepeatRandomSelect"
  /\ Len(app.items) = 3
  /\ last.avoidRecentCount = 2
  /\ last.recentResults = <<"a">>
  /\ last.result # <<>>
  /\ weightedRandomSelect(app.items, last.r) = <<app.items[1]>>

(* ------------------------------- C13 ---------------------------------- *)
\* C13: on a wheel of more than two items, the winner drawn by a lever pull
\* is never the winner drawn by one of the two pulls before it in the same
\* session.
C13_NoRepeatAcrossPulls ==
  Len(app.items) > AvoidRecent =>
    \A n \in DOMAIN app.pulls :
      \A k \in {n - 1, n - 2} \cap DOMAIN app.pulls : app.pulls[n] # app.pulls[k]

(* ------------------------------- C14 ---------------------------------- *)
PositiveWeights(items) == \A i \in DOMAIN items : items[i].weight > 0

\* The entries whose cumulative weight reaches random = r / RandDen * total.
Reached(items, r) ==
  {i \in DOMAIN items :
     r * SumWeights(items, Len(items)) <= RandDen * SumWeights(items, i)}

\* C14: on a non-empty pool of positive weights weightedRandomSelect returns
\* the first entry whose cumulative weight is at least the random value, the
\* loop itself returns it (the fallback after the loop is not reached), and
\* the random values that select entry i are those between the cumulative
\* weight before i and the cumulative weight up to i.
C14_CumulativeDraw ==
  (Len(app.items) > 0 /\ PositiveWeights(app.items)) =>
    /\ last.op = "weightedRandomSelect" =>
         /\ Reached(app.items, last.r) # {}
         /\ last.result = <<app.items[MinOf(Reached(app.items, last.r))]>>
         /\ weightedLoop(app.items, 1, last.r * SumWeights(app.items, Len(app.items)))
              = MinOf(Reached(app.items, last.r))
    /\ \A i \in DOMAIN app.items :
         {r \in Rand : weightedRandomSelect(app.items, r) = <<app.items[i]>>}
           = {r \in Rand :
                \/ i = 1 /\ r = 0
                \/ /\ RandDen * SumWeights(app.items, i - 1)
                        < r * SumWeights(app.items, Len(app.items))
                   /\ r * SumWeights(app.items, Len(app.items))
                        <= RandDen * SumWeights(app.items, i)}

C14_Witness ==
  /\ last.op = "weightedRandomSelect"
  /\ Len(app.items) = 3
  /\ PositiveWeights(app.items)
  /\ app.items[1].weight # app.items[2].weight
  /\ last.r * SumWeights(app.items, 3) = RandDen * SumWeights(app.items, 2)
  /\ last.result = <<app.items[2]>>

(* ------------------------------- C15 ---------------------------------- *)
\* C15: weightedRandomSelect and antiRepeatRandomSelect called with an
\* empty pool, or with a pool whose weights sum to 0 or less, throw and
\* return no item.
C15_InvalidConfig ==
  ( /\ last.op \in {"weightedRandomSelect", "antiRepeatRandomSelect"}
    /\ (Len(app.items) = 0 \/ SumWeights(app.items, Len(app.items)) <= 0) ) =>
      last.result = <<>>

(* ------------------------------- C16 ---------------------------------- *)
\* C16: on a non-empty pool whose weights sum to more than 0,
\* antiRepeatRandomSelect returns an item of the pool and does not throw,
\* whatever recentResults and avoidRecentCount >= 0 are; and when the pool
\* is not longer than avoidRecentCount it draws from the whole pool.
C16_Graceful ==
  ( /\ last.op = "antiRepeatRandomSelect"
    /\ Len(app.items) > 0
    /\ SumWeights(app.items, Len(app.items)) > 0 ) =>
      /\ last.result # <<>>
      /\ \E i \in DOMAIN app.items : last.result = <<app.items[i]>>
      /\ Len(app.items) <= last.avoidRecentCount =>
           last.result = weightedRandomSelect(app.items, last.r)

(* ------------------------------- C17 ---------------------------------- *)
Abs(x) == IF x < 0 THEN -x ELSE x

\* The part of a calculateRotationAngle result that is neither the base
\* turns nor the sector offset of the item at 0-based index i of n items.
Jitter(result, baseRotations, i, n) ==
  result - (baseRotations * 360 + (360 - i * (360 \div n)))

\* C17: for the item at index i of n items calculateRotationAngle returns
\* baseRotations * 360 + (360 - i * 360 / n) + jitter with |jitter| at most
\* 40% of 360 / n, so less than half a sector; for the first of six items
\* and five base turns the result is within 24 degrees of 2160.
C17_TargetDelta ==
  ( /\ last.op = "calculateRotationAngle"
    /\ \E k \in DOMAIN app.items : app.items[k].id = last.selectedItem.id ) =>
      LET n == Len(app.items)
          i == IndexOf(app.items, last.selectedItem.id) - 1
          jitter == Jitter(last.result, last.baseRotations, i, n)
      IN /\ 10 * Abs(jitter) <= 4 * (360 \div n)
         /\ 2 * Abs(jitter) < 360 \div n
         /\ (n = 6 /\ last.baseRotations = 5 /\ i = 0) =>
              Abs(last.result - 2160) <= 24

C17_Witness ==
  /\ last.op = "calculateRotationAngle"
  /\ app.items = DEFAULT_ITEMS
  /\ last.selectedItem = DEFAULT_ITEMS[1]
  /\ last.baseRotations = 5
  /\ last.result = 2160 - 24

(* ------------------------------- C18 ---------------------------------- *)
\* C18: for an item whose id is not in a non-empty pool
\* calculateRotationAngle returns exactly baseRotations * 360 and does not
\* throw.
C18_EntryNotFound ==
  ( /\ last.op = "calculateRotationAngle"
    /\ Len(app.items) > 0
    /\ \A k \in DOMAIN app.items : app.items[k].id # last.selectedItem.id ) =>
      last.result = last.baseRotations * 360

C18_Witness ==
  /\ last.op = "calculateRotationAngle"
  /\ Len(app.items) = 3
  /\ last.selectedItem = StrayItem
  /\ last.r # RandDen \div 2
  /\ last.result = BaseRotations * 360

(* ------------------------------- C19 ---------------------------------- *)
\* C19: right after addRecord(r) on a stored history h the stored history
\* is r followed by h, cut to its first 100 records; it then has at most 100
\* records, which are the most recently added ones, newest first, and only
\* the oldest are missing.
C19_HistoryCapped ==
  last.op = "addRecord" =>
    LET all == <<last.record>> \o last.pre
    IN /\ app.history = SubSeq(all, 1, IF Len(all) < 100 THEN Len(all) ELSE 100)
       /\ Len(app.history) <= 100
       /\ Len(app.history) = IF Len(app.added) < 100 THEN Len(app.added) ELSE 100
       /\ \A i \in DOMAIN app.history : app.history[i] = app.added[i]
       /\ \A i \in DOMAIN app.history :
            i > 1 => app.history[i - 1].timestamp > app.history[i].timestamp

C19_Witness ==
  /\ last.op = "addRecord"
  /\ Len(last.pre) = 100
  /\ Len(app.history) = 100
  /\ Len(app.added) > 100
  /\ app.history[100] = last.pre[99]
  /\ app.history[1].timestamp = now - 1

(* ------------------------------- C20 ---------------------------------- *)
\* C20: whatever is added, edited and deleted in the configuration dialog,
\* each of the built-in items default_1 .. default_6 is still in the item
\* list.
C20_BuiltInsStay ==
  \A d \in DOMAIN DEFAULT_ITEMS :
    \E i \in DOMAIN app.items : app.items[i].id = DEFAULT_ITEMS[d].id

(* ------------------------------- C21 ---------------------------------- *)
\* C21: whatever is added, edited, deleted and reset in the configuration
\* dialog, and however often the item list is loaded again from the store,
\* no two items of the list have the same id.
C21_UniqueIds == UniqueIds(app.items)

(* ------------------------------- C22 ---------------------------------- *)
\* The form of dialog state a breaks a bound: its weight is outside 1..100,
\* its text has no character left after trimming or more than 20, or the
\* text it would store is the text of an item other than the one edited.
FormViolates(a) ==
  \/ a.formData.weight < 1
  \/ a.formData.weight > 100
  \/ TextLength(Trim(a.formData.text)) < 1
  \/ TextLength(Trim(a.formData.text)) > 20
  \/ \E i \in DOMAIN a.items :
       /\ a.editingItem = <<>> \/ a.items[i].id # a.editingItem[1].id
       /\ a.items[i].text = Trim(a.formData.text)

\* C22: every item of the list has a weight in 1..100 and a text of 1..20
\* characters, whatever was saved, deleted and reset; and a save whose form
\* breaks a bound leaves the item list and the stored custom items as they
\* were.
C22_Bounds ==
  /\ \A i \in DOMAIN app.items :
       /\ app.items[i].weight \in 1..100
       /\ TextLength(app.items[i].text) \in 1..20
  /\ (last.op = "saveItem" /\ FormViolates(last.pre)) =>
       /\ app.items = last.pre.items
       /\ app.customItems = last.pre.customItems

(* ------------------------------- C23 ---------------------------------- *)
RECURSIVE SumNum(_, _)
\* The sum of the first n probabilities, as a numerator over their common
\* denominator.
SumNum(ps, n) == IF n = 0 THEN 0 ELSE SumNum(ps, n - 1) + ps[n].probability.num

RECURSIVE SumText(_, _)
\* The sum of the first n percentage strings, in tenths of a percent.
SumText(ps, n) == IF n = 0 THEN 0 ELSE SumText(ps, n - 1) + ps[n].probabilityText

\* C23 as stated: for a non-empty pool of positive weights the percentages
\* reported by calculateProbabilities add up to 100.0, both the values and
\* the one-decimal strings.
C23_SumIs100 ==
  ( /\ last.op = "calculateProbabilities"
    /\ Len(app.items) > 0
    /\ PositiveWeights(app.items) ) =>
      /\ SumNum(last.result, Len(last.result))
           = 100 * SumWeights(app.items, Len(app.items))
      /\ SumText(last.result, Len(last.result)) = 1000

\* C23, amended: the values add up to exactly 100; the one-decimal strings
\* add up to 100.0 give or take 0.05 per entry.
C23_SumWithinRounding ==
  ( /\ last.op = "calculateProbabilities"
    /\ Len(app.items) > 0
    /\ PositiveWeights(app.items) ) =>
      /\ Len(last.result) = Len(app.items)
      /\ SumNum(last.result, Len(last.result))
           = 100 * SumWeights(app.items, Len(app.items))
      /\ \A i \in DOMAIN last.result :
           last.result[i].probability.den = SumWeights(app.items, Len(app.items))
      /\ 2 * Abs(SumText(last.result, Len(last.result)) - 1000) <= Len(app.items)

C23_Witness ==
  /\ last.op = "calculateProbabilities"
  /\ Len(app.items) = 3
  /\ PositiveWeights(app.items)
  /\ SumText(last.result, 3) = 999

LatestAccepted(w, p) ==
  /\ p \in DOMAIN w.spins
  /\ w.spins[p].outcome \in {"pending", "resolved"}
  /\ \A q \in DOMAIN w.spins :
       q > p => w.spins[q].outcome \in {"AlreadySpinning", "NoTarget"}

\* C25: over every interleaving of spin, stop, reset and frames at most one
\* frame callback is queued; only a frame makes a spin tick, the spin that
\* ticks is the latest accepted one (a spin cut short before a new spin()
\* never ticks again), and the rotation a frame writes is that spin's.
C25_OneInFlight ==
  [][/\ Cardinality(DOMAIN rafQueue') <= 1
     /\ \A p \in DOMAIN spins :
          spins'[p].ticks # spins[p].ticks =>
            /\ last'.op = "frame"
            /\ Scheduled(world, p)
            /\ LatestAccepted(world, p)
            /\ currentRotation' = rotationAt(spins[p], progress(spins[p], now'))
     /\ (last'.op = "frame" /\ currentRotation' # currentRotation) =>
          \E p \in DOMAIN spins :
            LatestAccepted(world, p) /\ spins'[p].ticks = spins[p].ticks + 1]_vars

C25_Witness ==
  /\ last.op = "frame"
  /\ Len(spins) = 2
  /\ Cancelled(last.pre, 1)
  /\ spins[1].ticks = 1
  /\ spins[2].ticks = 2
  /\ currentRotation # last.pre.currentRotation

(* ------------------------------- C26 ---------------------------------- *)
\* C26: after a successful edit the item list has the length it had, the
\* edited item is at the position it was at with the id it had and the
\* built-in status it had, and every other item is unchanged.
C26_EditInPlace ==
  ( /\ last.op = "saveItem"
    /\ last.pre.editingItem # <<>>
    /\ validateForm(last.pre) ) =>
      /\ Len(app.items) = Len(last.pre.items)
      /\ \A i \in DOMAIN last.pre.items :
           IF last.pre.items[i].id = last.pre.editingItem[1].id
             THEN /\ app.items[i].id = last.pre.items[i].id
                  /\ app.items[i].isDefault = last.pre.items[i].isDefault
             ELSE app.items[i] = last.pre.items[i]

(* ------------------------------- C27 ---------------------------------- *)
\* C27: whatever sequence of addRecord, clearRecords, saveRecords and
\* importData produced it, the stored history has at most 100 records.
C27_AtMost100 == Len(app.history) <= HistoryCap

(* ------------------------------- C28 ---------------------------------- *)
\* C28: in every state between operations isSpinning is true exactly when
\* animationId holds a handle, that handle is then the one frame callback
\* queued with the host, and nothing is queued while the controller is Idle.
C28_Consistent ==
  /\ isSpinning <=> (animationId # NoHandle)
  /\ isSpinning <=> (DOMAIN rafQueue # {})
  /\ isSpinning => DOMAIN rafQueue = {animationId}

C28_Witness ==
  /\ last.op = "frame"
  /\ isSpinning
  /\ Len(spins) = 2
  /\ spins[1].outcome = "resolved"
  /\ rafQueue[animationId] = 2
  /\ spins[2].ticks > 0

(* ------------------------------- C29 ---------------------------------- *)
\* C29: App.isSpinning is true exactly while one spin timer is pending. While
\* it is true no step draws a winner or starts a spin timer, and a lever
\* click changes nothing. The flag goes up only when a lever timeout draws a
\* winner, which starts the one timer, and goes down only when that timer
\* fires; every winner drawn is followed by a state with the flag down.
C29_Gating ==
  /\ [](/\ app.isSpinning <=> (app.spinTimers # {})
        /\ Cardinality(app.spinTimers) <= 1)
  /\ [][/\ app.isSpinning =>
             /\ app'.pulls = app.pulls
             /\ app'.spinTimers \subseteq app.spinTimers
        /\ (last'.op = "click" /\ last'.isDisabled) => app' = app
        /\ app'.pulls # app.pulls =>
             /\ last'.op = "leverTimeout"
             /\ Len(app'.pulls) = Len(app.pulls) + 1
             /\ ~app.isSpinning /\ app'.isSpinning
             /\ app'.spinTimers = {[due |-> now + spinDuration(app.theme)]}
        /\ (~app.isSpinning /\ app'.isSpinning) => app'.pulls # app.pulls
        /\ (app.isSpinning /\ ~app'.isSpinning) =>
             /\ last'.op = "spinTimeout"
             /\ \A tm \in app.spinTimers : tm.due = now]_vars
  /\ \A n \in PullIds :
       (Len(app.pulls) >= n /\ app.isSpinning)
         ~> (Len(app.pulls) >= n /\ ~app.isSpinning)

C29_Witness ==
  /\ last.op = "click"
  /\ last.isDisabled
  /\ app.isSpinning
  /\ Len(app.pulls) = 2
  /\ Cardinality(app.spinTimers) = 1

(* ------------------------------- C30 ---------------------------------- *)
\* The pool antiRepeatRandomSelect filters out of items.
Available(items, recentResults, avoidRecentCount) ==
  Filter(items, Slice(recentResults, avoidRecentCount))

\* C30: when the pool is longer than avoidRecentCount and its ids are
\* unique, the filtered pool keeps at least length - avoidRecentCount items,
\* so it is not empty and the draw is made from it, not from the whole pool;
\* a filtered pool that is empty belongs to a pool in which items share an id.
C30_FilterKeeps ==
  ( /\ last.op = "antiRepeatRandomSelect"
    /\ Len(app.items) > last.avoidRecentCount ) =>
      LET available == Available(app.items, last.recentResults, last.avoidRecentCount)
      IN /\ UniqueIds(app.items) =>
              /\ Len(available) >= Len(app.items) - last.avoidRecentCount
              /\ Len(available) > 0
              /\ last.result = weightedRandomSelect(available, last.r)
         /\ Len(available) = 0 => ~UniqueIds(app.items)

C30_Witness ==
  /\ last.op = "antiRepeatRandomSelect"
  /\ UniqueIds(app.items)
  /\ PositiveWeights(app.items)
  /\ Len(app.items) = 3
  /\ last.avoidRecentCount = 2
  /\ last.recentResults = <<"c", "a">>
  /\ last.result = <<app.items[2]>>

\* The fall-back is taken on a pool in which two items share an id.
C30_FallBackWitness ==
  /\ last.op = "antiRepeatRandomSelect"
  /\ Len(app.items) > last.avoidRecentCount
  /\ Available(app.items, last.recentResults, last.avoidRecentCount) = <<>>
  /\ ~UniqueIds(app.items)
  /\ last.result # <<>>
====
